---- MODULE Spec2Model ----
(***************************************************************************)
(* Model of WireBundleOptimizer (src/optimizer.py): construction, the      *)
(* problem formulation (objective, constraints and their Jacobians), the   *)
(* initial guesses, the single-start solve and the multi-start driver      *)
(* solve_multi; and of the window WireBundleApp (src/main.py): the wire    *)
(* list, the pending result, the sleeve layers and the handlers of its     *)
(* buttons, under the specification SpecGui.                               *)
(*                                                                         *)
(* Numbers.  Lengths are integers (ticks); the radii given to the          *)
(* constructor are even, so that radii * 1.5 is an integer.  margin is an  *)
(* integer (0 = no margin, 1 = +100%), so radii * (1 + margin) is exact.   *)
(* The points that occur lie on the coordinate axes, and constraints and   *)
(* Jacobians are evaluated at vectors whose centres and centre differences *)
(* lie on the axes, so every Euclidean norm the code takes is an integer,  *)
(* Norm below is exact and every quotient coords / norm is -1, 0 or 1.     *)
(* Indices are 1-based: disk i has its x in column 2i - 1 and its y in     *)
(* column 2i of a decision vector (columns 2i and 2i + 1 of the 0-based    *)
(* disk i in the code), and R in the last column.                          *)
(* np.inf is the number np_inf, above every finite value of the model;     *)
(* NaN is np_nan, and FloatLt gives the comparison of floats.              *)
(* None is the empty sequence <<>>, a value v that is not None is <<v>>.   *)
(***************************************************************************)
EXTENDS Integers, Sequences, FiniteSets, TLC

VARIABLES
    pc,                      \* position of the caller / of solve_multi
    given_args,              \* the arguments the caller gave to the constructor
    radii, n, margin, inner_exclusion_radius,          \* set by __init__
    r_eff, n_vars, coord_idx, i_idx, j_idx, pair_r_eff, \* precomputed by __init__
    positions, outer_radius, \* cached last best result
    n_initializations, max_iterations, progress_cb,    \* arguments of the call
    initial_guesses,         \* the guesses the attempt loop has still to visit
    total, idx, results,     \* locals of solve_multi
    started,                 \* the kind of guess each attempt so far started from
    best_radius, best_coords, ridx,                    \* locals of the reduction
    ret,                     \* what the call returned
    cb_log,                  \* the calls progress_cb has received in this call
    cb_asked_stop,           \* some progress_cb call of this call returned "stop"
    twin_best_radius, twin_best_coords, twin_ret,
        \* the same call, with the same guesses and solver outcomes, on a freshly
        \* constructed instance with the same constructor arguments
    eval_call,               \* the method a caller invoked directly, with its argument
    eval_out,                \* what that method returned
    last_ret,                \* what the most recent completed solve_multi call returned
    overwritten,             \* what the cache held when the returning call wrote it
    wire_defs,               \* WireBundleApp: the working wire list, (count, diameter, color, label)
    layers,                  \* WireBundleApp: the sleeve layers added so far, innermost first
    frozen_core_radius,      \* WireBundleApp: outer radius of the frozen core
    _last_coords, _last_radii, _last_R, _last_colors,  \* WireBundleApp: the pending result
    optimize_button, add_sleeve_btn, undo_layer_btn,   \* whether each button is enabled
    runs,                    \* the _optimize invocations in progress, innermost last
    trail                    \* the last handler that ran, its input and the state it ran on

vars == << pc, given_args, radii, n, margin, inner_exclusion_radius, r_eff,
           n_vars, coord_idx, i_idx, j_idx, pair_r_eff, positions, outer_radius,
           n_initializations, max_iterations, progress_cb, initial_guesses,
           total, idx, results, started, best_radius, best_coords, ridx, ret,
           cb_log, cb_asked_stop, twin_best_radius, twin_best_coords, twin_ret,
           eval_call, eval_out, last_ret, overwritten,
           wire_defs, layers, frozen_core_radius, _last_coords, _last_radii,
           _last_R, _last_colors, optimize_button, add_sleeve_btn, undo_layer_btn,
           runs, trail >>

instance_vars == << given_args, radii, n, margin, inner_exclusion_radius, r_eff, n_vars,
                    coord_idx, i_idx, j_idx, pair_r_eff >>
cache_vars == << positions, outer_radius >>
arg_vars == << n_initializations, max_iterations, progress_cb >>
loop_vars == << initial_guesses, total, idx, results, started >>
reduce_vars == << best_radius, best_coords, ridx >>
cb_vars == << cb_log, cb_asked_stop >>
twin_vars == << twin_best_radius, twin_best_coords, twin_ret >>
eval_vars == << eval_call, eval_out >>
hist_vars == << last_ret, overwritten >>
gui_vars == << wire_defs, layers, frozen_core_radius, _last_coords, _last_radii,
               _last_R, _last_colors, optimize_button, add_sleeve_btn,
               undo_layer_btn, runs, trail >>
optimizer_vars == << pc, instance_vars, cache_vars, arg_vars, loop_vars, reduce_vars,
                     ret, cb_vars, twin_vars, eval_vars, hist_vars >>

----------------------------------------------------------------------------
(* Bounds and input sets *)

MaxInits == 2

\* the arguments of the constructor: << radii, margin, inner exclusion radius >>
ValidInstances ==
    { << <<2>>, 0, 0 >>, << <<2>>, 1, 2 >>, << <<2, 4>>, 0, 0 >>,
      << <<2, 4>>, 1, 2 >> }
InvalidInstances ==
    { << << >>, 0, 0 >>, << <<0>>, 0, 0 >>, << <<2>>, -1, 0 >>,
      << <<2>>, 0, -2 >> }
Instances == ValidInstances \cup InvalidInstances
\* the constructor arguments the formulation is evaluated for
FormulationInstances ==
    { << << >>, 0, 0 >>, << <<2>>, 0, 2 >>, << <<2>>, 0, -2 >>,
      << <<2, 4>>, 1, 2 >>, << <<4, 2, 8, 6>>, 0, 0 >>,
      << <<4, 2, 8, 6>>, 1, 2 >> }
InitsInputs == 0 .. MaxInits
MaxIterInputs == { 200 }
CallbackReturns == { "None", "stop" }

----------------------------------------------------------------------------
(* Floats *)

np_inf == 1000000
np_nan == np_inf + 1

FloatLe(a, b) == a # np_nan /\ b # np_nan /\ a <= b

FloatLt(a, b) == a # np_nan /\ b # np_nan /\ a < b

Abs(a) == IF a < 0 THEN -a ELSE a

RECURSIVE SqrtFrom(_, _)
SqrtFrom(k, s) == IF (s + 1) * (s + 1) > k THEN s ELSE SqrtFrom(k, s + 1)

\* np.linalg.norm of a 2-vector (exact on the points of the model)
Norm(v) == SqrtFrom(v[1] * v[1] + v[2] * v[2], 0)

Sub(a, b) == << a[1] - b[1], a[2] - b[2] >>

None == << >>
Some(v) == << v >>

----------------------------------------------------------------------------
(* Problem formulation.  A decision vector x is the flat sequence           *)
(* <<x_1, y_1, ..., x_n, y_n, R>> of length 2n + 1.                         *)

\* np.triu_indices(nn, 1): the pairs i < j in lexicographic order
RECURSIVE triu_from(_, _, _)
triu_from(nn, i, j) ==
    IF i >= nn THEN << >>
    ELSE IF j > nn THEN triu_from(nn, i + 1, i + 2)
    ELSE << << i, j >> >> \o triu_from(nn, i, j + 1)

\* the pairs of the lower triangle: each pair with its two indices swapped
triu_indices_swapped(nn) ==
    [ k \in 1 .. Len(triu_from(nn, 1, 2)) |->
        << triu_from(nn, 1, 2)[k][2], triu_from(nn, 1, 2)[k][1] >> ]

triu_indices(nn) == triu_from(nn, 1, 2)

\* coords.flatten()
RECURSIVE Flatten(_)
Flatten(c) == IF Len(c) = 0 THEN << >> ELSE c[1] \o Flatten(Tail(c))

_unpack(x) ==
    [ coords |-> [ i \in 1 .. n |-> << x[2 * i - 1], x[2 * i] >> ],
      R |-> x[Len(x)] ]

_objective(x) == x[Len(x)]

\* g = np.zeros_like(x); g[-1] = 1.0
_grad_objective(x) == [ c \in 1 .. Len(x) |-> IF c = Len(x) THEN 1 ELSE 0 ]

\* a division that is not masked where the norm is 0: 0 / 0 is NaN
divide_unmasked(v, norms) ==
    IF norms > 0 THEN << v[1] \div norms, v[2] \div norms >>
    ELSE << np_nan, np_nan >>

\* one row of np.divide(v, norms, out=zeros, where=norms > 0)
divide_where(v, norms) ==
    IF norms > 0 THEN << v[1] \div norms, v[2] \div norms >> ELSE << 0, 0 >>

_constraint_outer(x) ==
    LET u == _unpack(x)
    IN  [ i \in 1 .. n |-> u.R - (Norm(u.coords[i]) + r_eff[i]) ]

\* an outer-boundary Jacobian whose R column is left at zero
_jac_constraint_outer_without_R(x) ==
    LET u == _unpack(x)
        scaled == [ i \in 1 .. n |-> divide_where(u.coords[i], Norm(u.coords[i])) ]
    IN  [ i \in 1 .. n |->
            [ c \in 1 .. n_vars |->
                IF c = coord_idx[i] + 1 THEN -scaled[i][2]
                ELSE IF c = coord_idx[i] THEN -scaled[i][1]
                ELSE 0 ] ]

\* J[idx, coord_idx] = -scaled[:, 0]; J[idx, coord_idx + 1] = -scaled[:, 1];
\* J[:, -1] = 1.0 (a later assignment to the same entry wins)
_jac_constraint_outer(x) ==
    LET u == _unpack(x)
        scaled == [ i \in 1 .. n |-> divide_where(u.coords[i], Norm(u.coords[i])) ]
    IN  [ i \in 1 .. n |->
            [ c \in 1 .. n_vars |->
                IF c = n_vars THEN 1
                ELSE IF c = coord_idx[i] + 1 THEN -scaled[i][2]
                ELSE IF c = coord_idx[i] THEN -scaled[i][1]
                ELSE 0 ] ]

_constraint_pairs(x) ==
    LET u == _unpack(x)
    IN  [ k \in 1 .. Len(i_idx) |->
            Norm(Sub(u.coords[i_idx[k]], u.coords[j_idx[k]])) - pair_r_eff[k] ]

\* J[rows, idx_i] = grad[:, 0]; J[rows, idx_i + 1] = grad[:, 1];
\* J[rows, idx_j] = -grad[:, 0]; J[rows, idx_j + 1] = -grad[:, 1]
_jac_constraint_pairs(x) ==
    LET u == _unpack(x)
        m == Len(i_idx)
        diffs == [ k \in 1 .. m |-> Sub(u.coords[i_idx[k]], u.coords[j_idx[k]]) ]
        grad == [ k \in 1 .. m |-> divide_where(diffs[k], Norm(diffs[k])) ]
        idx_i == [ k \in 1 .. m |-> coord_idx[i_idx[k]] ]
        idx_j == [ k \in 1 .. m |-> coord_idx[j_idx[k]] ]
    IN  [ k \in 1 .. m |->
            [ c \in 1 .. n_vars |->
                IF c = idx_j[k] + 1 THEN -grad[k][2]
                ELSE IF c = idx_j[k] THEN -grad[k][1]
                ELSE IF c = idx_i[k] + 1 THEN grad[k][2]
                ELSE IF c = idx_i[k] THEN grad[k][1]
                ELSE 0 ] ]

\* an inner-hole constraint without the early return for a radius <= 0
_constraint_inner_hole_unguarded(x) ==
    LET u == _unpack(x)
    IN  [ i \in 1 .. n |->
            Norm(u.coords[i]) - (inner_exclusion_radius + r_eff[i]) ]

_constraint_inner_hole(x) ==
    IF inner_exclusion_radius <= 0
    THEN [ i \in 1 .. n |-> 1 ]
    ELSE LET u == _unpack(x)
         IN  [ i \in 1 .. n |->
                 Norm(u.coords[i]) - (inner_exclusion_radius + r_eff[i]) ]

\* zeros if inner_exclusion_radius <= 0 or n == 0; else
\* J[idx, coord_idx] = scaled[:, 0]; J[idx, coord_idx + 1] = scaled[:, 1]
_jac_constraint_inner_hole(x) ==
    LET u == _unpack(x)
        scaled == [ i \in 1 .. n |-> divide_where(u.coords[i], Norm(u.coords[i])) ]
    IN  IF inner_exclusion_radius <= 0 \/ n = 0
        THEN [ i \in 1 .. n |-> [ c \in 1 .. n_vars |-> 0 ] ]
        ELSE [ i \in 1 .. n |->
                 [ c \in 1 .. n_vars |->
                     IF c = coord_idx[i] + 1 THEN scaled[i][2]
                     ELSE IF c = coord_idx[i] THEN scaled[i][1]
                     ELSE 0 ] ]

\* the methods of the formulation that take a decision vector
Methods ==
    { "_objective", "_grad_objective", "_constraint_outer", "_jac_constraint_outer",
      "_constraint_pairs", "_jac_constraint_pairs", "_constraint_inner_hole",
      "_jac_constraint_inner_hole" }

\* getattr(self, method)(x)
apply(method, x) ==
    CASE method = "_objective" -> _objective(x)
      [] method = "_grad_objective" -> _grad_objective(x)
      [] method = "_constraint_outer" -> _constraint_outer(x)
      [] method = "_jac_constraint_outer" -> _jac_constraint_outer(x)
      [] method = "_constraint_pairs" -> _constraint_pairs(x)
      [] method = "_jac_constraint_pairs" -> _jac_constraint_pairs(x)
      [] method = "_constraint_inner_hole" -> _constraint_inner_hole(x)
      [] method = "_jac_constraint_inner_hole" -> _jac_constraint_inner_hole(x)

\* the centres and radii of the decision vectors the methods are evaluated at
EvalPoints == { << 0, 0 >>, << 6, 0 >>, << 0, -8 >> }
EvalRadii == { 8, 10 }

OnAxis(v) == v[1] = 0 \/ v[2] = 0

\* the decision vectors of the instance whose centres and centre differences lie
\* on the axes
EvalVectors ==
    { Flatten(c) \o << R >> :
        c \in { d \in [ 1 .. n -> EvalPoints ] :
                  \A i, j \in 1 .. n : OnAxis(Sub(d[i], d[j])) },
        R \in EvalRadii }

----------------------------------------------------------------------------
(* Initial guesses *)

\* np.argsort(-radii): the disk indices by decreasing radius
argsort_desc(r) ==
    CHOOSE p \in [ 1 .. Len(r) -> 1 .. Len(r) ] :
        \A a, b \in 1 .. Len(r) :
            a < b => \/ r[p[a]] > r[p[b]]
                     \/ (r[p[a]] = r[p[b]] /\ p[a] < p[b])

\* (cos, sin) of k * 2 pi / max(nn, 1), for the nn whose directions are exact
UnitDir(nn, k) ==
    IF nn <= 1 THEN << 1, 0 >>
    ELSE IF nn = 2 THEN (IF k % 2 = 0 THEN << 1, 0 >> ELSE << -1, 0 >>)
    ELSE IF k % 4 = 0 THEN << 1, 0 >>
    ELSE IF k % 4 = 1 THEN << 0, 1 >>
    ELSE IF k % 4 = 2 THEN << -1, 0 >>
    ELSE << 0, -1 >>

RECURSIVE SeqMax(_)
SeqMax(s) ==
    IF Len(s) = 1 THEN s[1]
    ELSE LET m == SeqMax(Tail(s)) IN IF s[1] > m THEN s[1] ELSE m

max_r_eff == IF n # 0 THEN SeqMax(r_eff) ELSE 0

spiral_base == inner_exclusion_radius + max_r_eff

\* a step of one and a half effective radii
spiral_step_effective(i) == (3 * r_eff[i]) \div 2

\* radii[idx] * (1.5 + margin), exact because the radii are even
spiral_step(i) == (radii[i] * (3 + 2 * margin)) \div 2

\* a running radius that starts at zero instead of base
RECURSIVE spiral_radius_from_zero(_)
spiral_radius_from_zero(k) ==
    IF k = 0 THEN 0
    ELSE spiral_radius_from_zero(k - 1) + spiral_step(argsort_desc(radii)[k])

\* the running radius after the k-th placement of the loop
RECURSIVE spiral_radius(_)
spiral_radius(k) ==
    IF k = 0 THEN spiral_base
    ELSE spiral_radius(k - 1) + spiral_step(argsort_desc(radii)[k])

_initial_guess_spiral ==
    LET order == argsort_desc(radii)
        place(k) == LET d == UnitDir(n, k - 1)
                    IN  << spiral_radius(k) * d[1], spiral_radius(k) * d[2] >>
        coords == [ i \in 1 .. n |->
                      place(CHOOSE k \in 1 .. n : order[k] = i) ]
        R_seed == IF n # 0 THEN spiral_radius(n) + max_r_eff ELSE spiral_base
    IN  Flatten(coords) \o << R_seed >>

\* what rng.uniform(-R0, R0) can draw for one disk: the origin, a point near
\* it and a corner of the square
DrawSet(R0) ==
    { p \in { << 0, 0 >>, << -2, 0 >>, << 0, -R0 >> } :
        Abs(p[1]) <= Abs(R0) /\ Abs(p[2]) <= Abs(R0) }

\* (cos, sin) of what rng.uniform(0, 2 pi) can draw
ThetaDirs == { << 1, 0 >>, << 0, 1 >> }

\* a repair that scales the drawn point without normalising it
repair_unnormalised(c, i, theta) ==
    LET min_ring == inner_exclusion_radius + r_eff[i]
        norms == Norm(c)
        dirs == IF norms = 0 THEN theta ELSE c
    IN  IF norms < min_ring
        THEN << dirs[1] * min_ring, dirs[2] * min_ring >>
        ELSE c

\* the repair of one drawn point c of disk i; theta is used when c is tiny
repair(c, i, theta) ==
    LET min_ring == inner_exclusion_radius + r_eff[i]
        norms == Norm(c)
        tiny == norms = 0
        dirs == IF tiny THEN theta ELSE c
        norm_mask == IF tiny THEN 1 ELSE norms
    IN  IF norms < min_ring
        THEN << (dirs[1] * min_ring) \div norm_mask,
                (dirs[2] * min_ring) \div norm_mask >>
        ELSE c

\* x0_rand for the drawn points and angles
random_guess(drawn, theta, R0) ==
    Flatten([ i \in 1 .. n |-> repair(drawn[i], i, theta[i]) ]) \o << R0 >>

RandomGuesses ==
    LET R0 == _unpack(_initial_guess_spiral).R
    IN  { random_guess(d, t, R0) :
            d \in [ 1 .. n -> DrawSet(R0) ], t \in [ 1 .. n -> ThetaDirs ] }

\* a loop that runs range(n_initializations) inside the same if
n_random_one_more(n_init) == IF n_init > 1 THEN n_init ELSE 0

\* how many random guesses solve_multi draws: range(n_initializations - 1),
\* entered only if n_initializations > 1
n_random(n_init) == IF n_init > 1 THEN n_init - 1 ELSE 0

\* initial_guesses: the spiral guess, then the random guesses rnd
make_guesses(rnd) ==
    << [ kind |-> "spiral", x |-> _initial_guess_spiral ] >>
    \o [ k \in 1 .. Len(rnd) |-> [ kind |-> "random", x |-> rnd[k] ] ]

----------------------------------------------------------------------------
(* The single-start solve *)

\* a solve that leaves the pairwise constraint out of cons
solve_cons_without_pairs ==
    << "outer" >>
    \o (IF inner_exclusion_radius > 0 THEN << "inner_hole" >> ELSE << >>)

\* the constraint dictionaries solve hands to minimize
solve_cons ==
    << "outer", "pairs" >>
    \o (IF inner_exclusion_radius > 0 THEN << "inner_hole" >> ELSE << >>)

cons_fun(c, x) ==
    IF c = "outer" THEN _constraint_outer(x)
    ELSE IF c = "pairs" THEN _constraint_pairs(x)
    ELSE _constraint_inner_hole(x)

\* every entry of every constraint of cons is >= 0 at x
satisfies(cons, x) ==
    \A k \in 1 .. Len(cons) :
        LET g == cons_fun(cons[k], x)
        IN  \A e \in DOMAIN g : g[e] >= 0

SolverPoints == { << 0, 0 >>, << 6, 0 >> }
SolverRadii == { 8, 10 }

SolverVectors ==
    { Flatten(c) \o << R >> : c \in [ 1 .. n -> SolverPoints ], R \in SolverRadii }

NanVector == [ k \in 1 .. n_vars |-> np_nan ]

\* scipy's minimize(method="SLSQP"): the solver is outside the repository.
\* It ends at some vector; it reports success only at a vector where every
\* constraint it was given holds, and it may report failure anywhere.
minimize(x0, cons, maxiter) ==
    { [ x |-> x, success |-> FALSE ] : x \in SolverVectors \cup { NanVector } }
    \cup { [ x |-> x, success |-> TRUE ] :
             x \in { v \in SolverVectors : satisfies(cons, v) } }

\* x0 = self._initial_guess_spiral() if x0 is None
default_x0(x0) == IF x0 = None THEN _initial_guess_spiral ELSE x0[1]

\* a solve that stores its result in the cache
solve_effect_caching(out, cache) ==
    [ positions |-> Some(out.coords), outer_radius |-> out.R ]

\* self.positions and self.outer_radius after a solve that returned out, in an
\* instance whose cache was cache: solve assigns no attribute
solve_effect(out, cache) == cache

solve(x0, max_iter) ==
    { [ coords |-> _unpack(res.x).coords, R |-> _unpack(res.x).R,
        success |-> res.success ] :
        res \in minimize(x0, solve_cons, max_iter) }

----------------------------------------------------------------------------
(* Construction *)

Init ==
    /\ pc = "new"
    /\ given_args = None
    /\ radii = << >> /\ n = 0 /\ margin = 0 /\ inner_exclusion_radius = 0
    /\ r_eff = << >> /\ n_vars = 0 /\ coord_idx = << >>
    /\ i_idx = << >> /\ j_idx = << >> /\ pair_r_eff = << >>
    /\ positions = None /\ outer_radius = 0
    /\ n_initializations = 0 /\ max_iterations = 0 /\ progress_cb = FALSE
    /\ initial_guesses = << >> /\ total = 0 /\ idx = 0 /\ results = << >>
    /\ started = << >>
    /\ best_radius = 0 /\ best_coords = None /\ ridx = 0
    /\ ret = None /\ cb_log = << >> /\ cb_asked_stop = FALSE
    /\ twin_best_radius = 0 /\ twin_best_coords = None /\ twin_ret = None
    /\ eval_call = None /\ eval_out = None
    /\ last_ret = None /\ overwritten = None
    /\ wire_defs = << >> /\ layers = << >> /\ frozen_core_radius = 0
    /\ _last_coords = None /\ _last_radii = None
    /\ _last_R = None /\ _last_colors = None
    /\ optimize_button = FALSE /\ add_sleeve_btn = FALSE /\ undo_layer_btn = FALSE
    /\ runs = << >> /\ trail = None

\* self.positions and self.outer_radius as __init__ leaves them
fresh_cache(nn) ==
    [ positions |-> Some([ i \in 1 .. nn |-> << 0, 0 >> ]), outer_radius |-> 0 ]

\* a constructor that validates its arguments
init_raises_on_invalid(r, m, e) ==
    \/ Len(r) = 0
    \/ \E i \in 1 .. Len(r) : r[i] <= 0
    \/ m < 0
    \/ e < 0

\* whether __init__ rejects its arguments: it validates nothing and raises nothing
init_raises(r, m, e) == FALSE

\* WireBundleOptimizer(radii, margin, inner_exclusion_radius) for arguments
\* drawn from insts
construct(insts) ==
    /\ pc = "new"
    /\ \E inst \in insts :
        LET r == inst[1]
            m == inst[2]
            e == inst[3]
        IN
        IF init_raises(r, m, e)
        THEN /\ pc' = "raised"
             /\ UNCHANGED << instance_vars, cache_vars >>
        ELSE LET reff == [ i \in 1 .. Len(r) |-> r[i] * (1 + m) ]
                 pairs == triu_indices(Len(r))
             IN  /\ pc' = "idle"
                 /\ given_args' = Some(inst)
                 /\ radii' = r
                 /\ n' = Len(r)
                 /\ margin' = m
                 /\ inner_exclusion_radius' = e
                 /\ r_eff' = reff
                 /\ n_vars' = Len(r) * 2 + 1
                 /\ coord_idx' = [ i \in 1 .. Len(r) |-> 2 * i - 1 ]
                 /\ i_idx' = [ k \in 1 .. Len(pairs) |-> pairs[k][1] ]
                 /\ j_idx' = [ k \in 1 .. Len(pairs) |-> pairs[k][2] ]
                 /\ pair_r_eff' = [ k \in 1 .. Len(pairs) |->
                                      reff[pairs[k][1]] + reff[pairs[k][2]] ]
                 /\ positions' = fresh_cache(Len(r)).positions
                 /\ outer_radius' = fresh_cache(Len(r)).outer_radius
    /\ UNCHANGED << arg_vars, loop_vars, reduce_vars, ret, cb_vars, twin_vars,
                    eval_vars, hist_vars, gui_vars >>

Construct == construct(Instances)

ConstructFormulation == construct(FormulationInstances)

----------------------------------------------------------------------------
(* Direct calls of the formulation, of the spiral guess and of solve *)

\* a caller evaluates one method of the formulation at a decision vector
Evaluate ==
    /\ pc = "idle"
    /\ \E method \in Methods, x \in EvalVectors :
        /\ eval_call' = Some([ method |-> method, x |-> x ])
        /\ eval_out' = Some(apply(method, x))
    /\ pc' = "evaluated"
    /\ UNCHANGED << instance_vars, cache_vars, arg_vars, loop_vars, reduce_vars,
                    ret, cb_vars, twin_vars, hist_vars, gui_vars >>

\* a caller asks for the spiral guess
Guess ==
    /\ pc = "idle"
    /\ eval_call' = Some([ method |-> "_initial_guess_spiral", x |-> None ])
    /\ eval_out' = Some(_initial_guess_spiral)
    /\ pc' = "evaluated"
    /\ UNCHANGED << instance_vars, cache_vars, arg_vars, loop_vars, reduce_vars,
                    ret, cb_vars, twin_vars, hist_vars, gui_vars >>

\* the x0 a caller gives to solve: none, or a decision vector
SolveInputs == { None } \cup { Some(x) : x \in SolverVectors }

\* a caller runs one single-start solve; cons is what solve hands to minimize
Solve ==
    /\ pc = "idle"
    /\ \E x0 \in SolveInputs, max_iter \in MaxIterInputs :
        \E out \in solve(default_x0(x0), max_iter) :
            LET own == [ positions |-> positions, outer_radius |-> outer_radius ]
            IN  /\ eval_call' = Some([ method |-> "solve", x |-> x0,
                                       cons |-> solve_cons ])
                /\ eval_out' = Some(out)
                /\ positions' = solve_effect(out, own).positions
                /\ outer_radius' = solve_effect(out, own).outer_radius
    /\ pc' = "evaluated"
    /\ UNCHANGED << instance_vars, arg_vars, loop_vars, reduce_vars, ret, cb_vars,
                    twin_vars, hist_vars, gui_vars >>

----------------------------------------------------------------------------
(* solve_multi *)

\* the call: the guesses are generated and the attempt loop is entered
Call ==
    /\ pc = "idle"
    /\ \E n_init \in InitsInputs, max_iter \in MaxIterInputs, cb \in BOOLEAN :
        \E rnd \in [ 1 .. n_random(n_init) -> RandomGuesses ] :
            /\ n_initializations' = n_init
            /\ max_iterations' = max_iter
            /\ progress_cb' = cb
            /\ initial_guesses' = make_guesses(rnd)
            /\ total' = Len(make_guesses(rnd))
    /\ idx' = 0
    /\ results' = << >>
    /\ started' = << >>
    /\ pc' = "solve"
    /\ UNCHANGED << instance_vars, cache_vars, reduce_vars, ret, cb_vars, twin_vars,
                    eval_vars, hist_vars, gui_vars >>

\* a loop that a callback can break out of
loop_ends_on_stop(i, t, cb_ret) == i >= t \/ cb_ret = "stop"

\* whether the attempt loop ends after attempt i of t: it ends when the
\* guesses are exhausted, whatever the callback returned
loop_ends(i, t, cb_ret) == i >= t

\* one pass of the attempt loop up to the append: results.append(self.solve(...))
Attempt ==
    /\ pc = "solve"
    /\ idx < total
    /\ \E out \in solve(Head(initial_guesses).x, max_iterations) :
        LET own == [ positions |-> positions, outer_radius |-> outer_radius ]
        IN  /\ results' = Append(results, out)
            /\ positions' = solve_effect(out, own).positions
            /\ outer_radius' = solve_effect(out, own).outer_radius
    /\ started' = Append(started, Head(initial_guesses).kind)
    /\ initial_guesses' = Tail(initial_guesses)
    /\ idx' = idx + 1
    /\ pc' = IF progress_cb THEN "progress"
             ELSE IF loop_ends(idx + 1, total, "None") THEN "reduce_init"
             ELSE "solve"
    /\ UNCHANGED << instance_vars, arg_vars, total, reduce_vars, ret,
                    cb_vars, twin_vars, eval_vars, hist_vars, gui_vars >>

\* a driver that reports the zero-based index
progress_args_zero_based(i, t) == << i - 1, t >>

\* what the driver passes to progress_cb after attempt i of t
progress_args(i, t) == << i, t >>

\* progress_cb(idx, total); what it returns is dropped
Progress ==
    /\ pc = "progress"
    /\ cb_log' = Append(cb_log, progress_args(idx, total))
    /\ \E cb_ret \in CallbackReturns :
        /\ cb_asked_stop' = (cb_asked_stop \/ cb_ret = "stop")
        /\ pc' = IF loop_ends(idx, total, cb_ret) THEN "reduce_init" ELSE "solve"
    /\ UNCHANGED << instance_vars, cache_vars, arg_vars, loop_vars, reduce_vars,
                    ret, twin_vars, eval_vars, hist_vars, gui_vars >>

\* a reduction that keeps the cached positions until something is accepted
reduce_start_from_cache(cache) ==
    [ best_radius |-> np_inf, best_coords |-> cache.positions ]

\* best_radius = np.inf; best_coords = None, in an instance whose cache is
\* cache
reduce_start(cache) == [ best_radius |-> np_inf, best_coords |-> None ]

ReduceInit ==
    /\ pc = "reduce_init"
    /\ LET own == [ positions |-> positions, outer_radius |-> outer_radius ]
       IN  /\ best_radius' = reduce_start(own).best_radius
           /\ best_coords' = reduce_start(own).best_coords
    /\ twin_best_radius' = reduce_start(fresh_cache(n)).best_radius
    /\ twin_best_coords' = reduce_start(fresh_cache(n)).best_coords
    /\ ridx' = 0
    /\ pc' = "reduce"
    /\ UNCHANGED << instance_vars, cache_vars, arg_vars, loop_vars, ret, cb_vars,
                    twin_ret, eval_vars, hist_vars, gui_vars >>

\* a reduction that ignores the success flag
accepts_any(success, R, best) == FloatLt(R, best)

\* a reduction that falls back to the first result when nothing was accepted yet
accepts_or_first(success, R, best) ==
    (success /\ FloatLt(R, best)) \/ best = np_inf

\* a reduction that compares with <=
accepts_le(success, R, best) == success /\ FloatLe(R, best)

\* a reduction that keeps the latest successful result
accepts_latest(success, R, best) == success

\* if success and R < best_radius
accepts(success, R, best) == success /\ FloatLt(R, best)

\* the reduction loop over the results rs, from the best so far
RECURSIVE reduction(_, _)
reduction(rs, best) ==
    IF rs = << >> THEN best
    ELSE reduction(Tail(rs),
                   IF accepts(Head(rs).success, Head(rs).R, best.best_radius)
                   THEN [ best_radius |-> Head(rs).R,
                          best_coords |-> Some(Head(rs).coords) ]
                   ELSE best)

\* one pass of the reduction loop
ReduceStep ==
    /\ pc = "reduce"
    /\ ridx < Len(results)
    /\ LET r == results[ridx + 1]
       IN  IF accepts(r.success, r.R, best_radius)
           THEN /\ best_radius' = r.R
                /\ best_coords' = Some(r.coords)
           ELSE UNCHANGED << best_radius, best_coords >>
    /\ LET r == results[ridx + 1]
       IN  IF accepts(r.success, r.R, twin_best_radius)
           THEN /\ twin_best_radius' = r.R
                /\ twin_best_coords' = Some(r.coords)
           ELSE UNCHANGED << twin_best_radius, twin_best_coords >>
    /\ ridx' = ridx + 1
    /\ UNCHANGED << pc, instance_vars, cache_vars, arg_vars, loop_vars, ret,
                    cb_vars, twin_ret, eval_vars, hist_vars, gui_vars >>

\* a return of the margin-inflated radii
return_value_r_eff(coords, R) == [ coords |-> coords, radii |-> r_eff, R |-> R ]

\* return best_coords, self.radii, best_radius
return_value(coords, R) == [ coords |-> coords, radii |-> radii, R |-> R ]

\* a driver that caches only a feasible result
cache_write_if_feasible(coords, R, cache) ==
    IF coords = None THEN cache ELSE [ positions |-> coords, outer_radius |-> R ]

\* self.positions = best_coords; self.outer_radius = best_radius, in an
\* instance whose cache was cache
cache_write(coords, R, cache) == [ positions |-> coords, outer_radius |-> R ]

\* the cache is written and the call returns
Return ==
    /\ pc = "reduce"
    /\ ridx = Len(results)
    /\ LET own == [ positions |-> positions, outer_radius |-> outer_radius ]
       IN  /\ positions' = cache_write(best_coords, best_radius, own).positions
           /\ outer_radius' = cache_write(best_coords, best_radius, own).outer_radius
           /\ overwritten' = Some(own)
    /\ ret' = Some(return_value(best_coords, best_radius))
    /\ last_ret' = Some(return_value(best_coords, best_radius))
    /\ twin_ret' = Some(return_value(twin_best_coords, twin_best_radius))
    /\ pc' = "returned"
    /\ UNCHANGED << instance_vars, arg_vars, loop_vars, reduce_vars, cb_vars,
                    twin_best_radius, twin_best_coords, eval_vars,
                    gui_vars >>

\* the caller has taken the result of solve_multi or of a direct call; the
\* locals of the call are gone
Finish ==
    /\ pc \in { "returned", "evaluated" }
    /\ pc' = "idle"
    /\ n_initializations' = 0 /\ max_iterations' = 0 /\ progress_cb' = FALSE
    /\ initial_guesses' = << >> /\ total' = 0 /\ idx' = 0 /\ results' = << >>
    /\ started' = << >>
    /\ best_radius' = 0 /\ best_coords' = None /\ ridx' = 0
    /\ ret' = None /\ cb_log' = << >> /\ cb_asked_stop' = FALSE
    /\ twin_best_radius' = 0 /\ twin_best_coords' = None /\ twin_ret' = None
    /\ eval_call' = None /\ eval_out' = None
    /\ overwritten' = None
    /\ UNCHANGED << instance_vars, cache_vars, last_ret, gui_vars >>

Next ==
    \/ Construct
    \/ Evaluate
    \/ Guess
    \/ Solve
    \/ Call
    \/ Attempt
    \/ Progress
    \/ ReduceInit
    \/ ReduceStep
    \/ Return
    \/ Finish

Spec == Init /\ [][Next]_vars

\* the formulation and the spiral guess alone, on instances of up to four disks
NextFormulation ==
    \/ ConstructFormulation
    \/ Evaluate
    \/ Guess
    \/ Finish

SpecFormulation == Init /\ [][NextFormulation]_vars

----------------------------------------------------------------------------
(* WireBundleApp (src/main.py): the working wire list, the pending result  *)
(* of the last feasible run, the sleeve layers and the three buttons.      *)
(* A wire entry is the tuple (count, diameter, color, label); diameters    *)
(* are even, so that the radius d / 2.0 is an integer.  A handler is an    *)
(* operator from the window's state, the record App, to the state it       *)
(* leaves.  _optimize alone is not atomic: it hands control to the event   *)
(* loop at each QApplication.processEvents() call, where the handlers of   *)
(* enabled buttons, _optimize itself included, run inside it.              *)

MaxRadius == 9     \* largest outer radius of a layout a run may return
MaxLayers == 2     \* most layers the history holds
MaxDepth == 2      \* most _optimize invocations in progress at once

\* what the wire form holds when Add Wire is pressed
WireInputs == { << 1, 4, "#007acc", "4.000 mm" >> }

\* the catalog of sleeve_types.yaml: a thickness, or an entry float() rejects
predefined_sleeves == [ void |-> Some(0), text |-> None ]

\* what the sleeve form holds when Add Sleeve is pressed: the spin box,
\* whose range starts at 0.01, or a label of the selector
SleeveInputs ==
    { [ custom |-> TRUE, value |-> 1, label |-> "" ],
      [ custom |-> FALSE, value |-> 1, label |-> "void" ],
      [ custom |-> FALSE, value |-> 1, label |-> "text" ] }

InitsValues == { 1 }    \* inits_input.value()
MarginValues == { 0 }      \* margin_input.value()

selected_sleeve_color == "#888888"

App ==
    [ wire_defs |-> wire_defs, layers |-> layers,
      frozen_core_radius |-> frozen_core_radius,
      _last_coords |-> _last_coords, _last_radii |-> _last_radii,
      _last_R |-> _last_R, _last_colors |-> _last_colors,
      optimize_button |-> optimize_button, add_sleeve_btn |-> add_sleeve_btn,
      undo_layer_btn |-> undo_layer_btn ]

RECURSIVE total_count(_)
total_count(defs) ==
    IF defs = << >> THEN 0 ELSE defs[1][1] + total_count(Tail(defs))

\* [f(entry) for cnt, d, c, l in defs for _ in range(cnt)]
RECURSIVE per_wire(_, _)
per_wire(defs, field) ==
    IF defs = << >> THEN << >>
    ELSE [ k \in 1 .. defs[1][1] |->
             IF field = "radius" THEN defs[1][2] \div 2 ELSE defs[1][3] ]
         \o per_wire(Tail(defs), field)

_refresh_list(a) == [ a EXCEPT !.optimize_button = (a.wire_defs # << >>) ]

_update_add_sleeve_button(a) ==
    [ a EXCEPT !.add_sleeve_btn = (a._last_R # None \/ a.frozen_core_radius > 0) ]

_update_undo_button(a) == [ a EXCEPT !.undo_layer_btn = (a.layers # << >>) ]

\* the rows of the list with the diameter and the color of the form
merge_rows(defs, w) ==
    { i \in 1 .. Len(defs) : defs[i][2] = w[2] /\ defs[i][3] = w[3] }

_add_wire(a, w) ==
    LET rows == merge_rows(a.wire_defs, w) IN
    IF rows # { }
    THEN LET i == CHOOSE k \in rows : \A m \in rows : k <= m
             new_total == a.wire_defs[i][1] + w[1]
         IN  _refresh_list([ a EXCEPT !.wire_defs[i] = << new_total, w[2], w[3], w[4] >> ])
    ELSE _refresh_list([ a EXCEPT !.wire_defs = Append(@, w) ])

\* row is wire_list.currentRow(): -1 with no selection, else 0-based
_remove_selected_wire(a, row) ==
    IF row >= 0
    THEN _refresh_list([ a EXCEPT !.wire_defs =
                           SubSeq(@, 1, row) \o SubSeq(@, row + 2, Len(@)) ])
    ELSE a

clear_pending(a) ==
    [ a EXCEPT !._last_coords = None, !._last_radii = None,
               !._last_R = None, !._last_colors = None ]

\* the thickness _add_sleeve reads from the form; None where float() raises
sleeve_thickness(s) ==
    IF s.custom THEN Some(s.value)
    ELSE IF s.label \in DOMAIN predefined_sleeves THEN predefined_sleeves[s.label]
    ELSE None

sleeve_label(s) == IF s.custom THEN "Custom 1.000 mm" ELSE s.label

_add_sleeve_keeping_list(a, s) ==
    LET t == sleeve_thickness(s) IN
    IF t = None THEN a
    ELSE IF t[1] <= 0 THEN a
    ELSE IF a._last_R # None
    THEN LET inner_R == a._last_R[1]
             outer_R == inner_R + t[1]
             layer == [ coords |-> a._last_coords[1], radii |-> a._last_radii[1],
                        colors |-> a._last_colors[1],
                        inner_R |-> inner_R, outer_R |-> outer_R,
                        ring_color |-> selected_sleeve_color,
                        sleeve_label |-> sleeve_label(s),
                        wire_defs |-> a.wire_defs ]
             a1 == [ a EXCEPT !.layers = Append(@, layer),
                              !.frozen_core_radius = outer_R ]
         IN  _update_undo_button(_update_add_sleeve_button(
                 clear_pending(_refresh_list(a1))))
    ELSE IF a.frozen_core_radius > 0
    THEN LET inner_R == a.frozen_core_radius
             outer_R == inner_R + t[1]
             layer == [ coords |-> << >>, radii |-> << >>, colors |-> << >>,
                        inner_R |-> inner_R, outer_R |-> outer_R,
                        ring_color |-> selected_sleeve_color,
                        sleeve_label |-> sleeve_label(s),
                        wire_defs |-> a.wire_defs ]
             a1 == [ a EXCEPT !.layers = Append(@, layer),
                              !.frozen_core_radius = outer_R ]
         IN  _update_undo_button(_update_add_sleeve_button(a1))
    ELSE a

_add_sleeve(a, s) ==
    LET t == sleeve_thickness(s) IN
    IF t = None THEN a
    ELSE IF t[1] <= 0 THEN a
    ELSE IF a._last_R # None
    THEN LET inner_R == a._last_R[1]
             outer_R == inner_R + t[1]
             layer == [ coords |-> a._last_coords[1], radii |-> a._last_radii[1],
                        colors |-> a._last_colors[1],
                        inner_R |-> inner_R, outer_R |-> outer_R,
                        ring_color |-> selected_sleeve_color,
                        sleeve_label |-> sleeve_label(s),
                        wire_defs |-> a.wire_defs ]
             a1 == [ a EXCEPT !.layers = Append(@, layer),
                              !.frozen_core_radius = outer_R,
                              !.wire_defs = << >> ]
         IN  _update_undo_button(_update_add_sleeve_button(
                 clear_pending(_refresh_list(a1))))
    ELSE IF a.frozen_core_radius > 0
    THEN LET inner_R == a.frozen_core_radius
             outer_R == inner_R + t[1]
             layer == [ coords |-> << >>, radii |-> << >>, colors |-> << >>,
                        inner_R |-> inner_R, outer_R |-> outer_R,
                        ring_color |-> selected_sleeve_color,
                        sleeve_label |-> sleeve_label(s),
                        wire_defs |-> a.wire_defs ]
             a1 == [ a EXCEPT !.layers = Append(@, layer),
                              !.frozen_core_radius = outer_R ]
         IN  _update_undo_button(_update_add_sleeve_button(a1))
    ELSE a

_undo_last_layer_keeping_list(a) ==
    IF a.layers = << >> THEN a
    ELSE
    LET removed_layer == a.layers[Len(a.layers)]
        rest == SubSeq(a.layers, 1, Len(a.layers) - 1)
        a1 == [ a EXCEPT !.layers = rest,
                         !.frozen_core_radius =
                             IF rest # << >> THEN rest[Len(rest)].outer_R ELSE 0 ]
        a2 == IF Len(removed_layer.coords) > 0
              THEN [ a1 EXCEPT
                       !._last_coords = Some(removed_layer.coords),
                       !._last_radii = Some(removed_layer.radii),
                       !._last_R = Some(removed_layer.inner_R),
                       !._last_colors = Some(removed_layer.colors) ]
              ELSE clear_pending(a1)
    IN  _update_undo_button(_update_add_sleeve_button(a2))

_undo_last_layer(a) ==
    IF a.layers = << >> THEN a
    ELSE
    LET removed_layer == a.layers[Len(a.layers)]
        rest == SubSeq(a.layers, 1, Len(a.layers) - 1)
        a1 == [ a EXCEPT !.layers = rest,
                         !.frozen_core_radius =
                             IF rest # << >> THEN rest[Len(rest)].outer_R ELSE 0 ]
        a2 == IF Len(removed_layer.coords) > 0
              THEN LET a3 == [ a1 EXCEPT
                                 !._last_coords = Some(removed_layer.coords),
                                 !._last_radii = Some(removed_layer.radii),
                                 !._last_R = Some(removed_layer.inner_R),
                                 !._last_colors = Some(removed_layer.colors) ]
                       saved_defs == removed_layer.wire_defs
                   IN  IF saved_defs # << >> /\ a3.wire_defs = << >>
                       THEN _refresh_list([ a3 EXCEPT !.wire_defs = saved_defs ])
                       ELSE a3
              ELSE clear_pending(a1)
    IN  _update_undo_button(_update_add_sleeve_button(a2))

_clear_all_keeping_core(a) ==
    LET a1 == [ a EXCEPT !.layers = << >>, !.wire_defs = << >> ]
    IN  _update_undo_button(_update_add_sleeve_button(
            clear_pending(_refresh_list(a1))))

_clear_all(a) ==
    LET a1 == [ a EXCEPT !.layers = << >>, !.frozen_core_radius = 0,
                         !.wire_defs = << >> ]
    IN  _update_undo_button(_update_add_sleeve_button(
            clear_pending(_refresh_list(a1))))

\* a layout the solver may settle on: the disks in a row on the x axis,
\* the first one touching the exclusion circle from outside
RECURSIVE row_from(_, _)
row_from(rs, x) ==
    IF rs = << >> THEN << >>
    ELSE << << x + rs[1], 0 >> >> \o row_from(Tail(rs), x + 2 * rs[1])

RECURSIVE sum_seq(_)
sum_seq(rs) == IF rs = << >> THEN 0 ELSE rs[1] + sum_seq(Tail(rs))

row_radius(rs, excl) == excl + 2 * sum_seq(rs)

row_layout(rs, excl) ==
    [ coords |-> row_from(rs, excl), R |-> row_radius(rs, excl) ]

\* what optimizer.solve_multi hands to _optimize: an exception, the
\* infeasible sentinel, or the best layout with the radii and its R
solve_multi_returns(f) ==
    { [ kind |-> "raised", coords |-> None, radii |-> f.radii, R |-> np_nan ],
      [ kind |-> "returned", coords |-> None, radii |-> f.radii, R |-> np_inf ],
      [ kind |-> "returned",
        coords |-> Some(row_layout(f.radii, f.inner_exclusion_radius).coords),
        radii |-> f.radii,
        R |-> row_layout(f.radii, f.inner_exclusion_radius).R ] }

isfinite(v) == v # np_inf /\ v # np_nan

\* _optimize up to its first processEvents(): the locals it keeps for the
\* rest of the run; None where it returns at once for want of wires.
\* From there to the return of solve_multi the run is in, or between, its
\* processEvents() calls: one before and one after the progress bar is set
\* up, and one in on_progress after each attempt.  Nothing in between
\* touches the window's state, so a run in progress is one position.
optimize_locals(a, n_init, m) ==
    LET rs == per_wire(a.wire_defs, "radius") IN
    IF rs = << >> THEN None
    ELSE Some([ radii |-> rs, colors |-> per_wire(a.wire_defs, "color"),
                margin |-> m, inner_exclusion_radius |-> a.frozen_core_radius,
                n_initializations |-> n_init ])

optimize_begin(a) == [ a EXCEPT !.optimize_button = FALSE ]

\* _optimize from the return of solve_multi on
optimize_end(a, f, out) ==
    LET a1 == [ a EXCEPT !.optimize_button = (a.wire_defs # << >>) ] IN
    IF out.kind = "raised" THEN a1
    ELSE IF out.coords = None \/ ~ isfinite(out.R) THEN a1
    ELSE _update_undo_button(_update_add_sleeve_button(
             [ a1 EXCEPT !._last_coords = out.coords,
                         !._last_radii = Some(out.radii),
                         !._last_R = Some(out.R),
                         !._last_colors = Some(f.colors) ]))

Become(a) ==
    /\ wire_defs' = a.wire_defs /\ layers' = a.layers
    /\ frozen_core_radius' = a.frozen_core_radius
    /\ _last_coords' = a._last_coords /\ _last_radii' = a._last_radii
    /\ _last_R' = a._last_R /\ _last_colors' = a._last_colors
    /\ optimize_button' = a.optimize_button
    /\ add_sleeve_btn' = a.add_sleeve_btn
    /\ undo_layer_btn' = a.undo_layer_btn

\* the trail keeps an Add Sleeve, and an Undo that follows an Add Sleeve
\* at once or finds no layer, each with the state it ran on
Ran(op, input) ==
    IF op = "_add_sleeve"
    THEN Some([ op |-> op, input |-> Some(input), before |-> App, prior |-> None ])
    ELSE IF trail # None /\ trail[1].op = "_add_sleeve"
    THEN Some([ op |-> op, input |-> None, before |-> App,
                prior |-> Some([ input |-> trail[1].input,
                                 before |-> trail[1].before ]) ])
    ELSE IF layers = << >>
    THEN Some([ op |-> op, input |-> None, before |-> App, prior |-> None ])
    ELSE None

\* the event loop delivers a click: at rest, or inside the processEvents()
\* call the innermost run is in
AddWire ==
    \E w \in WireInputs :
        /\ row_radius(per_wire(_add_wire(App, w).wire_defs, "radius"), 0) <= MaxRadius
        /\ Become(_add_wire(App, w))
        /\ trail' = None
        /\ UNCHANGED << runs, optimizer_vars >>

RemoveWire ==
    \E row \in -1 .. Len(wire_defs) - 1 :
        /\ Become(_remove_selected_wire(App, row))
        /\ trail' = None
        /\ UNCHANGED << runs, optimizer_vars >>

AddSleeve ==
    \E s \in SleeveInputs :
        /\ add_sleeve_btn
        /\ Len(layers) < MaxLayers
        /\ Become(_add_sleeve(App, s))
        /\ trail' = Ran("_add_sleeve", s)
        /\ UNCHANGED << runs, optimizer_vars >>

\* the button, or the Undo key sequence, which is never disabled
UndoLastLayer ==
    /\ Become(_undo_last_layer(App))
    /\ trail' = Ran("_undo_last_layer", None)
    /\ UNCHANGED << runs, optimizer_vars >>

ClearAll ==
    /\ Become(_clear_all(App))
    /\ trail' = None
    /\ UNCHANGED << runs, optimizer_vars >>

Optimize ==
    \E n_init \in InitsValues, m \in MarginValues :
        /\ optimize_button
        /\ Len(runs) < MaxDepth
        /\ row_radius(per_wire(wire_defs, "radius"), frozen_core_radius) <= MaxRadius
        /\ LET f == optimize_locals(App, n_init, m) IN
           IF f = None
           THEN Become(App) /\ runs' = runs
           ELSE Become(optimize_begin(App)) /\ runs' = Append(runs, f[1])
        /\ trail' = None
        /\ UNCHANGED optimizer_vars

OptimizeEnd ==
    /\ runs # << >>
    /\ \E out \in solve_multi_returns(runs[Len(runs)]) :
           Become(optimize_end(App, runs[Len(runs)], out))
    /\ runs' = SubSeq(runs, 1, Len(runs) - 1)
    /\ trail' = None
    /\ UNCHANGED optimizer_vars

NextGui ==
    \/ AddWire
    \/ RemoveWire
    \/ AddSleeve
    \/ UndoLastLayer
    \/ ClearAll
    \/ Optimize
    \/ OptimizeEnd

SpecGui == Init /\ [][NextGui]_vars

----------------------------------------------------------------------------
(* Properties *)

InCall == pc \in { "solve", "progress", "reduce_init", "reduce", "returned" }
AfterLoop == pc \in { "reduce_init", "reduce", "returned" }

Successes == { i \in 1 .. Len(results) : results[i].success }
Failures == { i \in 1 .. Len(results) : ~results[i].success }

ValidArgs(a) ==
    /\ Len(a[1]) > 0
    /\ \A i \in 1 .. Len(a[1]) : a[1][i] > 0
    /\ a[2] >= 0
    /\ a[3] >= 0

Dot(v) == v[1] * v[1] + v[2] * v[2]

\* C1: when some attempt of the call succeeded, the returned coordinates and R
\* are those of one successful attempt, and that R is <= the R of every
\* successful attempt; a failed attempt's result is not what is returned.
C1_BestIsSmallestSuccess ==
    (pc = "returned" /\ Successes # { }) =>
        \E i \in Successes :
            /\ ret[1].coords = Some(results[i].coords)
            /\ ret[1].R = results[i].R
            /\ \A j \in Successes : ret[1].R <= results[j].R

\* a call returned a successful attempt's result although an earlier attempt
\* had failed at a smaller R
C1_Witness ==
    /\ pc = "returned"
    /\ \E i \in Successes, f \in Failures :
           /\ f < i
           /\ FloatLt(results[f].R, results[i].R)
           /\ ret[1].R = results[i].R

\* C2: when every attempt of the call failed, the reduction goes through and
\* the call returns no coordinates (None) and the radius np.inf.
C2_SentinelWhenNoSuccess ==
    /\ (pc = "returned" /\ Successes = { }) =>
            (ret[1].coords = None /\ ret[1].R = np_inf)
    /\ (pc = "reduce" /\ ridx = Len(results)) => ENABLED Return

\* a call of two failed attempts returned, one of them at a finite vector
C2_Witness ==
    /\ pc = "returned"
    /\ Len(results) >= 2
    /\ Successes = { }
    /\ \E f \in Failures : results[f].R < np_inf

\* C3 as stated: invalid constructor arguments are reported at construction,
\* so no constructed instance and no attempt exists for them.
C3_InvalidInputRejected ==
    (pc # "new" /\ pc # "raised") => ValidArgs(given_args[1])

\* C3 as amended: construction never reports a failure; it stores the
\* arguments as given, with n = len(radii) and r_eff = radii * (1 + margin),
\* whether or not they are valid.
C3_ConstructionAcceptsAll ==
    /\ pc # "raised"
    /\ pc # "new" =>
        /\ given_args[1] = << radii, margin, inner_exclusion_radius >>
        /\ n = Len(radii)
        /\ r_eff = [ i \in 1 .. n |-> radii[i] * (1 + margin) ]

\* a call on an instance built from invalid arguments ran an attempt and returned
C3_Witness ==
    /\ pc = "returned"
    /\ ~ValidArgs(given_args[1])
    /\ Len(results) >= 1

\* C4: a returned best result (not the sentinel) satisfies every active
\* constraint: each disk inside the enclosing circle, no two disks overlapping,
\* and with an inner exclusion radius > 0 every centre outside the core ring;
\* re-evaluating the constraint functions on it gives no negative entry.
\* (The solver is taken to report success only where its constraints hold.)
C4_ReturnedBestIsFeasible ==
    (pc = "returned" /\ ret[1].coords # None) =>
        LET c == ret[1].coords[1]
            R == ret[1].R
            x == Flatten(c) \o << R >>
        IN  /\ \A i \in 1 .. n :
                   R - r_eff[i] >= 0 /\ Dot(c[i]) <= (R - r_eff[i]) * (R - r_eff[i])
            /\ \A i, j \in 1 .. n :
                   (i < j /\ r_eff[i] + r_eff[j] > 0) =>
                       Dot(Sub(c[i], c[j]))
                           >= (r_eff[i] + r_eff[j]) * (r_eff[i] + r_eff[j])
            /\ inner_exclusion_radius > 0 =>
                   \A i \in 1 .. n :
                       inner_exclusion_radius + r_eff[i] > 0 =>
                           Dot(c[i]) >= (inner_exclusion_radius + r_eff[i])
                                          * (inner_exclusion_radius + r_eff[i])
            /\ satisfies(<< "outer", "pairs", "inner_hole" >>, x)

\* a best result was returned for two disks, chosen among attempts that ended
\* at overlapping layouts without success
C4_Witness ==
    /\ pc = "returned"
    /\ n = 2
    /\ ret[1].coords # None
    /\ \E f \in Failures :
           /\ results[f].R # np_nan
           /\ results[f].coords[1] = results[f].coords[2]

\* the kinds of the guesses of the call, visited or not, in list order
GuessKinds ==
    started \o [ k \in 1 .. Len(initial_guesses) |-> initial_guesses[k].kind ]

\* C5: for n_initializations >= 1 the call generates and runs exactly
\* n_initializations attempts; the first starts from the spiral guess and the
\* other n_initializations - 1 from random guesses.
C5_OneSpiralRestRandom ==
    (InCall /\ n_initializations >= 1) =>
        /\ total = n_initializations
        /\ Len(GuessKinds) = n_initializations
        /\ GuessKinds[1] = "spiral"
        /\ \A k \in 2 .. Len(GuessKinds) : GuessKinds[k] = "random"
        /\ Len(started) = Len(results)
        /\ (pc = "solve" /\ idx = 0) =>
               /\ initial_guesses[1].x = _initial_guess_spiral
               /\ \A k \in 2 .. Len(initial_guesses) :
                      initial_guesses[k].x \in RandomGuesses
        /\ AfterLoop => Len(results) = n_initializations

\* a call with two initializations returned after a spiral and a random attempt
C5_Witness ==
    /\ pc = "returned"
    /\ n_initializations = 2
    /\ started = << "spiral", "random" >>
    /\ Len(results) = 2

\* C6: a supplied progress callback is called once after each completed
\* attempt and not before: its k-th call carries (k, total), the calls so far
\* are as many as the attempts whose report is due, and after the loop there
\* are exactly total calls; without a callback nothing is called.
C6_ProgressAfterEachAttempt ==
    InCall =>
        /\ idx = Len(results)
        /\ progress_cb =>
               /\ cb_log = [ k \in 1 .. Len(cb_log) |-> << k, total >> ]
               /\ Len(cb_log) = (IF pc = "progress" THEN idx - 1 ELSE idx)
               /\ AfterLoop => Len(cb_log) = total
        /\ ~progress_cb => cb_log = << >>

\* the callback has reported the second of two attempts
C6_Witness ==
    /\ pc = "reduce_init"
    /\ progress_cb
    /\ cb_log = << << 1, 2 >>, << 2, 2 >> >>

\* C7: the reduction starts only when every generated guess has been
\* attempted: no guess is left, there is one result per guess, whatever the
\* earlier attempts reported and whatever the callback returned; and the
\* call returns only after the reduction has visited every result.
C7_ReductionAfterAllAttempts ==
    /\ AfterLoop =>
           /\ initial_guesses = << >>
           /\ Len(results) = total
           /\ total = 1 + n_random(n_initializations)
    /\ pc \in { "solve", "progress" } =>
           Len(results) + Len(initial_guesses) = total
    /\ pc = "returned" => ridx = Len(results)

\* the reduction runs over two results although the first attempt succeeded
\* and the callback asked to stop
C7_Witness ==
    /\ pc = "reduce"
    /\ Len(results) = 2
    /\ results[1].success
    /\ cb_asked_stop

\* the earliest successful result of smallest R among the first k results
EarliestBest(k) ==
    LET S == { i \in Successes : i <= k }
    IN  IF S = { }
        THEN [ best_radius |-> np_inf, best_coords |-> None ]
        ELSE LET i == CHOOSE a \in S :
                        /\ \A b \in S : results[a].R <= results[b].R
                        /\ \A b \in S : results[b].R = results[a].R => a <= b
             IN  [ best_radius |-> results[i].R,
                   best_coords |-> Some(results[i].coords) ]

\* C8: throughout the reduction the best so far is the earliest successful
\* result of smallest R among the results visited: a candidate replaces it
\* only if it succeeded with a strictly smaller R, so among successful
\* attempts of equal smallest R the earliest one's coordinates are returned.
C8_FirstStrictlySmallerWins ==
    /\ pc \in { "reduce", "returned" } =>
           /\ best_radius = EarliestBest(ridx).best_radius
           /\ best_coords = EarliestBest(ridx).best_coords
    /\ pc = "returned" =>
           /\ ret[1].coords = EarliestBest(Len(results)).best_coords
           /\ ret[1].R = EarliestBest(Len(results)).best_radius

\* two successful attempts tied at the smallest R with different coordinates,
\* and the first one's coordinates were returned
C8_Witness ==
    /\ pc = "returned"
    /\ Len(results) = 2
    /\ Successes = { 1, 2 }
    /\ results[1].R = results[2].R
    /\ results[1].coords # results[2].coords
    /\ ret[1].coords = Some(results[1].coords)

\* C9: the radii a call returns are the radii given to the constructor, in
\* the same order and without the margin, also when the sentinel is returned.
C9_RadiiEchoed ==
    pc = "returned" => ret[1].radii = given_args[1][1]

\* the sentinel was returned for two different radii under a positive margin
C9_Witness ==
    /\ pc = "returned"
    /\ ret[1].coords = None
    /\ margin > 0
    /\ n = 2
    /\ ret[1].radii = << 2, 4 >>

\* C10: a call returns what the same call (same arguments, same guesses, same
\* solver outcomes) returns on a freshly constructed instance, whatever
\* earlier calls left in positions and outer_radius: the reduction and the
\* returned value do not depend on the cache.
C10_IndependentOfCache ==
    /\ pc \in { "reduce", "returned" } =>
           /\ best_radius = twin_best_radius
           /\ best_coords = twin_best_coords
    /\ pc = "returned" => ret = twin_ret

\* a reduction ends on a best result that differs from the cached one, in an
\* instance whose cache is no longer that of a fresh instance
C10_Witness ==
    /\ pc = "reduce"
    /\ ridx = Len(results)
    /\ best_coords # None
    /\ positions # fresh_cache(n).positions
    /\ positions # None
    /\ positions # best_coords
    /\ outer_radius # best_radius

\* the call was a direct call of method
Evaluated(method) == pc = "evaluated" /\ eval_call[1].method = method

\* what solve_multi(1) returns on this instance when its one attempt, started
\* from the spiral guess, ends as attempt 1 of this call did (the solve being a
\* function of its initial guess)
SingleStart ==
    reduction(<< results[1] >>,
              reduce_start([ positions |-> positions, outer_radius |-> outer_radius ]))

\* C11: with the single-start solve a function of its initial guess, the R a
\* call with n_initializations > 1 returns is <= the R the call with
\* n_initializations = 1 returns: the first attempt of both starts from the
\* spiral guess, and np.inf stands for the infeasible sentinel.
C11_MoreStartsNotWorse ==
    (pc = "returned" /\ n_initializations > 1) =>
        /\ started[1] = "spiral"
        /\ FloatLe(ret[1].R, SingleStart.best_radius)
        /\ SingleStart.best_coords # None => ret[1].coords # None

\* a call of two attempts returned the result of its random start, which
\* succeeded at a smaller R than its spiral start did
C11_Witness ==
    /\ pc = "returned"
    /\ n_initializations = 2
    /\ started = << "spiral", "random" >>
    /\ results[1].success
    /\ results[2].success
    /\ results[2].R < results[1].R
    /\ ret[1].R = results[2].R
    /\ ret[1].R < SingleStart.best_radius

\* C12: solve hands the inner-exclusion constraint to the solver if and only
\* if inner_exclusion_radius > 0; with inner_exclusion_radius <= 0 the
\* constraint function is > 0 for every disk at every decision vector and its
\* Jacobian is all zero.
C12_InnerHoleActiveIffPositive ==
    /\ Evaluated("solve") =>
           ((\E k \in DOMAIN eval_call[1].cons : eval_call[1].cons[k] = "inner_hole")
                <=> inner_exclusion_radius > 0)
    /\ (Evaluated("_constraint_inner_hole") /\ inner_exclusion_radius <= 0) =>
           /\ Len(eval_out[1]) = n
           /\ \A i \in 1 .. n : eval_out[1][i] > 0
    /\ (Evaluated("_jac_constraint_inner_hole") /\ inner_exclusion_radius <= 0) =>
           /\ Len(eval_out[1]) = n
           /\ \A i \in 1 .. n : \A c \in 1 .. n_vars : eval_out[1][i][c] = 0

\* the inner-exclusion constraint was evaluated, without an exclusion radius,
\* at a vector with a disk centred at the origin
C12_Witness ==
    /\ Evaluated("_constraint_inner_hole")
    /\ inner_exclusion_radius = 0
    /\ n = 2
    /\ eval_call[1].x[1] = 0 /\ eval_call[1].x[2] = 0
    /\ eval_out[1] = << 1, 1 >>

\* C13: after construction no operation changes radii, margin, the exclusion
\* radius or a precomputed value (r_eff, the pair index lists, pair_r_eff): not
\* an evaluation of the objective, its gradient, a constraint or a Jacobian,
\* not a spiral guess, not a single-start solve, not solve_multi; and
\* positions and outer_radius change only in the step in which solve_multi
\* writes them and returns.
C13_OnlySolveMultiWritesCache ==
    [][ pc # "new" =>
          /\ << radii, n, margin, inner_exclusion_radius, r_eff, n_vars, coord_idx,
                i_idx, j_idx, pair_r_eff >>'
                = << radii, n, margin, inner_exclusion_radius, r_eff, n_vars,
                     coord_idx, i_idx, j_idx, pair_r_eff >>
          /\ << positions, outer_radius >>' # << positions, outer_radius >> =>
                 (pc = "reduce" /\ pc' = "returned")
          /\ (pc' = "evaluated" \/ pc = "solve") =>
                 << positions, outer_radius >>' = << positions, outer_radius >>
      ]_vars

\* a direct single-start solve has succeeded on an instance whose cache holds
\* the different result of an earlier solve_multi call
C13_Witness ==
    /\ Evaluated("solve")
    /\ eval_out[1].success
    /\ last_ret # None
    /\ positions # None
    /\ positions = last_ret[1].coords
    /\ positions # Some(eval_out[1].coords)
    /\ outer_radius # eval_out[1].R

\* the centres of the decision vector of the direct call
EvalCoords == _unpack(eval_call[1].x).coords

\* C14: the pairwise constraint has n(n-1)/2 entries, one per pair i < j, in
\* the lexicographic order fixed at construction; entry k of its value and row
\* k of its Jacobian belong to the same pair (i_k, j_k): the row is nonzero only
\* in the x and y columns of disks i_k and j_k, the entries of j_k are the
\* negation of those of i_k, and the R column is zero.
C14_PairsLexicographicAndAligned ==
    /\ pc # "new" =>
           /\ Len(i_idx) = (n * (n - 1)) \div 2
           /\ Len(j_idx) = Len(i_idx)
           /\ Len(pair_r_eff) = Len(i_idx)
           /\ \A k \in 1 .. Len(i_idx) :
                  /\ 1 <= i_idx[k] /\ i_idx[k] < j_idx[k] /\ j_idx[k] <= n
                  /\ pair_r_eff[k] = r_eff[i_idx[k]] + r_eff[j_idx[k]]
           /\ \A k, l \in 1 .. Len(i_idx) :
                  k < l => \/ i_idx[k] < i_idx[l]
                           \/ (i_idx[k] = i_idx[l] /\ j_idx[k] < j_idx[l])
    /\ Evaluated("_constraint_pairs") =>
           /\ Len(eval_out[1]) = (n * (n - 1)) \div 2
           /\ \A k \in 1 .. Len(i_idx) :
                  LET d == Sub(EvalCoords[i_idx[k]], EvalCoords[j_idx[k]])
                      dist == eval_out[1][k] + r_eff[i_idx[k]] + r_eff[j_idx[k]]
                  IN  dist >= 0 /\ dist * dist = Dot(d)
    /\ Evaluated("_jac_constraint_pairs") =>
           /\ Len(eval_out[1]) = (n * (n - 1)) \div 2
           /\ \A k \in 1 .. Len(i_idx) :
                  LET row == eval_out[1][k]
                      xi == 2 * i_idx[k] - 1
                      xj == 2 * j_idx[k] - 1
                      d == Sub(EvalCoords[i_idx[k]], EvalCoords[j_idx[k]])
                  IN  /\ Len(row) = 2 * n + 1
                      /\ \A c \in 1 .. Len(row) :
                             row[c] # 0 => c \in { xi, xi + 1, xj, xj + 1 }
                      /\ row[xj] = -row[xi]
                      /\ row[xj + 1] = -row[xi + 1]
                      /\ row[2 * n + 1] = 0
                      /\ d # << 0, 0 >> =>
                             /\ row[xi] * Norm(d) = d[1]
                             /\ row[xi + 1] * Norm(d) = d[2]

\* the pairwise Jacobian was evaluated for four disks at a vector where disks
\* 2 and 3 are apart: row 4, the row of the pair (2, 3), is nonzero
C14_Witness ==
    /\ Evaluated("_jac_constraint_pairs")
    /\ n = 4
    /\ i_idx = << 1, 1, 1, 2, 2, 3 >>
    /\ j_idx = << 2, 3, 4, 3, 4, 4 >>
    /\ EvalCoords[2] = << 6, 0 >>
    /\ EvalCoords[3] = << 0, 0 >>
    /\ eval_out[1][4] = << 0, 0, 1, 0, -1, 0, 0, 0, 0 >>

\* the centres of the spiral guess the direct call returned
GuessCoords == _unpack(eval_out[1]).coords

RECURSIVE SumRadii(_)
SumRadii(S) ==
    IF S = { } THEN 0
    ELSE LET i == CHOOSE j \in S : TRUE IN radii[i] + SumRadii(S \ { i })

\* the disks placed no later than disk i when the disks are placed by
\* decreasing raw radius
PlacedUpTo(i) ==
    { j \in 1 .. n : radii[j] > radii[i] \/ (radii[j] = radii[i] /\ j <= i) }

LargestEffective == CHOOSE m \in { r_eff[i] : i \in 1 .. n } : \A i \in 1 .. n : r_eff[i] <= m

\* C15 as stated: the spiral guess places the disks by decreasing raw radius,
\* from the running radius inner_exclusion_radius + max(r_eff), and before
\* placing disk i adds 1.5 * (radius_i + margin * radius_i) to it, for every
\* margin >= 0 (twice the distances are compared, to stay in integers).
C15_StepIsOneAndAHalfEffectiveRadii ==
    (Evaluated("_initial_guess_spiral") /\ ValidArgs(given_args[1])) =>
        /\ \A i, j \in 1 .. n :
               radii[i] > radii[j] => Norm(GuessCoords[i]) < Norm(GuessCoords[j])
        /\ \A i \in 1 .. n :
               2 * Norm(GuessCoords[i])
                   = 2 * (inner_exclusion_radius + LargestEffective)
                     + 3 * (1 + margin) * SumRadii(PlacedUpTo(i))

\* C15 as amended: the disks are placed by decreasing raw radius, and before
\* placing disk i the running radius grows by radius_i * (1.5 + margin), which
\* is 1.5 * (radius_i + margin * radius_i) only for margin = 0.
C15_StepIsRadiusTimesOneAndAHalfPlusMargin ==
    (Evaluated("_initial_guess_spiral") /\ ValidArgs(given_args[1])) =>
        /\ \A i, j \in 1 .. n :
               radii[i] > radii[j] => Norm(GuessCoords[i]) < Norm(GuessCoords[j])
        /\ \A i \in 1 .. n :
               2 * Norm(GuessCoords[i])
                   = 2 * (inner_exclusion_radius + LargestEffective)
                     + (3 + 2 * margin) * SumRadii(PlacedUpTo(i))
        /\ eval_out[1][2 * n + 1]
               = inner_exclusion_radius + 2 * LargestEffective
                 + ((3 + 2 * margin) * SumRadii(1 .. n)) \div 2

\* the spiral guess of four disks of radii 4, 2, 8, 6 under margin 1 and
\* exclusion radius 2: the disks lie at 38, 53, 63, 68 in the order 3, 4, 1, 2
C15_Witness ==
    /\ Evaluated("_initial_guess_spiral")
    /\ margin = 1
    /\ radii = << 4, 2, 8, 6 >>
    /\ eval_out[1] = << -63, 0, 0, -68, 38, 0, 0, 53, 84 >>

\* C16: for positive radii, margin >= 0 and an exclusion radius >= 0, every
\* disk of the spiral guess, the first placed one included, is at a distance
\* of at least inner_exclusion_radius + r_eff_i from the origin.
C16_SpiralOutsideExclusion ==
    (Evaluated("_initial_guess_spiral") /\ ValidArgs(given_args[1])) =>
        \A i \in 1 .. n :
            /\ Norm(GuessCoords[i]) >= inner_exclusion_radius + r_eff[i]
            /\ Dot(GuessCoords[i])
                   >= (inner_exclusion_radius + r_eff[i])
                        * (inner_exclusion_radius + r_eff[i])

\* the spiral guess of one disk of radius 2 around a core of radius 2: the
\* disk lies at 7, the ring is at 4
C16_Witness ==
    /\ Evaluated("_initial_guess_spiral")
    /\ inner_exclusion_radius = 2
    /\ radii = << 2 >>
    /\ eval_out[1] = << 7, 0, 9 >>

\* the random guesses of the call, while none of its guesses has been visited
FreshRandomGuesses ==
    IF pc = "solve" /\ idx = 0
    THEN { initial_guesses[k].x : k \in 2 .. Len(initial_guesses) }
    ELSE { }

\* C17: in every random guess each disk i is at a distance of at least
\* inner_exclusion_radius + r_eff_i from the origin; whatever was drawn for
\* it, a disk drawn below that ring lies exactly on the ring, in the direction
\* of its drawn point, or in a drawn direction when the drawn point was at
\* the origin, and a disk drawn on or outside the ring is where it was drawn.
C17_RandomGuessRepaired ==
    \A x \in FreshRandomGuesses :
        LET c == _unpack(x).coords
            R0 == _unpack(_initial_guess_spiral).R
            ring == [ i \in 1 .. n |-> inner_exclusion_radius + r_eff[i] ]
        IN  /\ x[2 * n + 1] = R0
            /\ \A i \in 1 .. n : Norm(c[i]) >= ring[i]
            /\ \A d \in [ 1 .. n -> DrawSet(R0) ], t \in [ 1 .. n -> ThetaDirs ] :
                   x = random_guess(d, t, R0) =>
                       \A i \in 1 .. n :
                           IF Norm(d[i]) >= ring[i] THEN c[i] = d[i]
                           ELSE /\ Norm(c[i]) = ring[i]
                                /\ Dot(c[i]) = ring[i] * ring[i]
                                /\ IF d[i] = << 0, 0 >>
                                   THEN c[i] \in { << ring[i] * u[1], ring[i] * u[2] >> :
                                                     u \in ThetaDirs }
                                   ELSE /\ c[i][1] * Norm(d[i]) = d[i][1] * ring[i]
                                        /\ c[i][2] * Norm(d[i]) = d[i][2] * ring[i]

\* a random guess for radii 2, 4 under margin 1 and exclusion radius 2 (rings
\* at 6 and 10): disk 1, drawn at (-2, 0), was moved to (-6, 0), and disk 2,
\* drawn at (0, -33), was left where it was
C17_Witness ==
    /\ pc = "solve"
    /\ idx = 0
    /\ radii = << 2, 4 >>
    /\ margin = 1
    /\ inner_exclusion_radius = 2
    /\ << -6, 0, 0, -33, 33 >> \in FreshRandomGuesses

\* the x and y entries of a Jacobian row for disk i are sign times the unit
\* vector of v, and zero when v is the zero vector
UnitEntries(row, i, v, sign) ==
    IF v = << 0, 0 >>
    THEN row[2 * i - 1] = 0 /\ row[2 * i] = 0
    ELSE /\ row[2 * i - 1] * Norm(v) = sign * v[1]
         /\ row[2 * i] * Norm(v) = sign * v[2]

\* C18: a Jacobian evaluated at a degenerate point is returned like any other:
\* the row of a disk centred at the origin (outer and inner-exclusion
\* Jacobians), or of a pair of coinciding centres (pairwise Jacobian), has all
\* its coordinate entries zero, every other row holds the unit direction, and
\* no entry is NaN.
C18_DegenerateRowIsZero ==
    /\ Evaluated("_jac_constraint_outer") =>
           \A i \in 1 .. n :
               /\ UnitEntries(eval_out[1][i], i, EvalCoords[i], -1)
               /\ \A c \in 1 .. 2 * n + 1 : eval_out[1][i][c] \in -1 .. 1
    /\ (Evaluated("_jac_constraint_inner_hole") /\ inner_exclusion_radius > 0) =>
           \A i \in 1 .. n :
               /\ UnitEntries(eval_out[1][i], i, EvalCoords[i], 1)
               /\ \A c \in 1 .. 2 * n + 1 : eval_out[1][i][c] \in -1 .. 1
    /\ Evaluated("_jac_constraint_pairs") =>
           \A k \in 1 .. Len(i_idx) :
               LET d == Sub(EvalCoords[i_idx[k]], EvalCoords[j_idx[k]])
               IN  /\ UnitEntries(eval_out[1][k], i_idx[k], d, 1)
                   /\ UnitEntries(eval_out[1][k], j_idx[k], d, -1)
                   /\ \A c \in 1 .. 2 * n + 1 : eval_out[1][k][c] \in -1 .. 1

\* the pairwise Jacobian was evaluated for four disks with disks 1 and 2 both
\* centred at (0, -8) and disk 3 at the origin: the row of the pair (1, 2) is
\* zero, the row of the pair (1, 3) is not
C18_Witness ==
    /\ Evaluated("_jac_constraint_pairs")
    /\ n = 4
    /\ EvalCoords[1] = << 0, -8 >>
    /\ EvalCoords[2] = << 0, -8 >>
    /\ EvalCoords[3] = << 0, 0 >>
    /\ eval_out[1][1] = << 0, 0, 0, 0, 0, 0, 0, 0, 0 >>
    /\ eval_out[1][2] = << 0, -1, 0, 0, 0, 1, 0, 0, 0 >>

\* C19: every constraint Jacobian has one row per entry of its constraint and
\* 2n + 1 columns; row i of the outer-boundary Jacobian is nonzero at most in
\* the x and y columns of disk i and in the R column, where it is 1; row i of
\* the inner-exclusion Jacobian is nonzero at most in the x and y columns of
\* disk i, and 0 in the R column.
C19_JacobianShapeAndSparsity ==
    /\ Evaluated("_jac_constraint_outer") =>
           /\ Len(eval_out[1]) = Len(_constraint_outer(eval_call[1].x))
           /\ Len(eval_out[1]) = n
           /\ \A i \in 1 .. n :
                  /\ Len(eval_out[1][i]) = 2 * n + 1
                  /\ \A c \in 1 .. 2 * n :
                         eval_out[1][i][c] # 0 => c \in { 2 * i - 1, 2 * i }
                  /\ eval_out[1][i][2 * n + 1] = 1
    /\ Evaluated("_jac_constraint_inner_hole") =>
           /\ Len(eval_out[1]) = Len(_constraint_inner_hole(eval_call[1].x))
           /\ Len(eval_out[1]) = n
           /\ \A i \in 1 .. n :
                  /\ Len(eval_out[1][i]) = 2 * n + 1
                  /\ \A c \in 1 .. 2 * n :
                         eval_out[1][i][c] # 0 => c \in { 2 * i - 1, 2 * i }
                  /\ eval_out[1][i][2 * n + 1] = 0
    /\ Evaluated("_jac_constraint_pairs") =>
           /\ Len(eval_out[1]) = Len(_constraint_pairs(eval_call[1].x))
           /\ \A k \in 1 .. Len(eval_out[1]) : Len(eval_out[1][k]) = 2 * n + 1

\* the outer-boundary Jacobian was evaluated for four disks with disk 3 at
\* (6, 0): row 3 is -1 in the x column of disk 3 and 1 in the R column
C19_Witness ==
    /\ Evaluated("_jac_constraint_outer")
    /\ n = 4
    /\ EvalCoords[3] = << 6, 0 >>
    /\ eval_out[1][3] = << 0, 0, 0, 0, -1, 0, 0, 0, 1 >>

\* C20: whenever a solve_multi call has returned on the instance, positions
\* and outer_radius are the coordinates and the R the most recent call
\* returned; a call without a feasible attempt leaves None and np.inf there,
\* whatever was cached before.
C20_CacheIsLastReturn ==
    /\ last_ret # None =>
           /\ positions = last_ret[1].coords
           /\ outer_radius = last_ret[1].R
    /\ pc = "returned" =>
           /\ last_ret = ret
           /\ ret[1].coords = None => (positions = None /\ outer_radius = np_inf)
    /\ (last_ret = None /\ pc # "new") =>
           /\ positions = fresh_cache(n).positions
           /\ outer_radius = fresh_cache(n).outer_radius

\* a call without a feasible attempt has returned on an instance whose cache
\* held the feasible result of an earlier call: the cache now holds the sentinel
C20_Witness ==
    /\ pc = "returned"
    /\ Len(results) >= 1
    /\ overwritten[1].positions # None
    /\ overwritten[1].positions # fresh_cache(n).positions
    /\ overwritten[1].outer_radius < np_inf
    /\ ret[1].coords = None
    /\ positions = None
    /\ outer_radius = np_inf

----------------------------------------------------------------------------
(* The window (src/main.py), under SpecGui *)

\* the data of the window, the buttons left aside
AppData(a) ==
    << a.wire_defs, a.layers, a.frozen_core_radius,
       a._last_coords, a._last_radii, a._last_R, a._last_colors >>

JustRan(op) == trail # None /\ trail[1].op = op

\* C21: Undo Last Layer pressed right after an Add Sleeve that added a layer
\* leaves layers, frozen_core_radius, the pending result and wire_defs as
\* they were before that Add Sleeve; Undo with no layer changes nothing.
C21_UndoRestoresStateBeforeAddSleeve ==
    JustRan("_undo_last_layer") =>
        LET u == trail[1] IN
        /\ (u.prior # None /\ u.before.layers # u.prior[1].before.layers)
               => AppData(App) = AppData(u.prior[1].before)
        /\ u.before.layers = << >> => App = u.before

\* an Undo has just taken back a layer of wires that an Add Sleeve had
\* added on top of an older layer, and the working list is back
C21_Witness ==
    /\ JustRan("_undo_last_layer")
    /\ trail[1].prior # None
    /\ Len(trail[1].before.layers) = Len(trail[1].prior[1].before.layers) + 1
    /\ layers # << >> /\ wire_defs # << >> /\ _last_R # None

\* C22: Add Sleeve with a thickness t > 0 and a pending result appends a
\* layer with that result's coords, radii and colors, inner_R the pending R
\* and outer_R = inner_R + t, then clears the pending result and the wire
\* list; with no pending result and a frozen core it appends a wire-less
\* layer from the core's radius to that radius + t and leaves the wire list;
\* with neither, with t <= 0 or with an invalid selection it changes nothing.
C22_AddSleeveEffect ==
    /\ JustRan("_add_sleeve") =>
          LET b == trail[1].before
              t == sleeve_thickness(trail[1].input[1])
              top == layers[Len(layers)]
          IN  IF t = None THEN App = b
              ELSE IF t[1] <= 0 THEN App = b
              ELSE IF b._last_R # None
              THEN /\ Len(layers) = Len(b.layers) + 1
                   /\ SubSeq(layers, 1, Len(b.layers)) = b.layers
                   /\ top.coords = b._last_coords[1]
                   /\ top.radii = b._last_radii[1]
                   /\ top.colors = b._last_colors[1]
                   /\ top.inner_R = b._last_R[1]
                   /\ top.outer_R = top.inner_R + t[1]
                   /\ _last_coords = None /\ _last_radii = None
                   /\ _last_R = None /\ _last_colors = None
                   /\ wire_defs = << >>
              ELSE IF b.frozen_core_radius > 0
              THEN /\ Len(layers) = Len(b.layers) + 1
                   /\ SubSeq(layers, 1, Len(b.layers)) = b.layers
                   /\ top.coords = << >> /\ top.radii = << >> /\ top.colors = << >>
                   /\ top.inner_R = b.frozen_core_radius
                   /\ top.outer_R = top.inner_R + t[1]
                   /\ wire_defs = b.wire_defs
                   /\ _last_R = None
              ELSE App = b
    /\ (_last_R = None /\ frozen_core_radius = 0) =>
          \A s \in SleeveInputs : _add_sleeve(App, s) = App

\* an Add Sleeve has just wrapped a pending result of a non-empty wire list
\* in a second layer
C22_Witness ==
    /\ JustRan("_add_sleeve")
    /\ trail[1].before._last_R # None
    /\ trail[1].before.wire_defs # << >>
    /\ Len(layers) = Len(trail[1].before.layers) + 1
    /\ Len(layers) > 1

\* C23: after any sequence of operations, those handled inside a running
\* optimization included, the layers are nested: each has outer_R > inner_R,
\* and each after the first has inner_R >= the outer_R of the one before.
\* (Every result solve_multi_returns gives has R >= the exclusion radius
\* the run was started with.)
C23_LayersNested ==
    \A i \in 1 .. Len(layers) :
        /\ layers[i].outer_R > layers[i].inner_R
        /\ i > 1 => layers[i].inner_R >= layers[i - 1].outer_R

\* C24: while an Optimize run is in progress the Optimize button stays
\* disabled until the run ends, so at most one _optimize invocation is
\* active, whatever add, remove, undo and clear clicks are handled meanwhile.
C24_OneOptimizeAtATime ==
    /\ runs # << >> => ~ optimize_button
    /\ Len(runs) <= 1

\* C25: after every completed operation of the window, frozen_core_radius
\* is the outer_R of the last layer, and it is 0 exactly when there is no
\* layer.
C25_FrozenCoreIsLastOuterRadius ==
    /\ frozen_core_radius =
           IF layers = << >> THEN 0 ELSE layers[Len(layers)].outer_R
    /\ frozen_core_radius = 0 <=> layers = << >>

\* inside a run started on a frozen core, an Undo has just removed the
\* second of two layers
C25_Witness ==
    /\ runs # << >>
    /\ runs[Len(runs)].inner_exclusion_radius > 0
    /\ JustRan("_undo_last_layer")
    /\ Len(trail[1].before.layers) = 2 /\ Len(layers) = 1

\* C26: in every layer that holds wires, coords, radii and colors have one
\* length, and that length is the number of wires of the wire_defs saved
\* in the same layer, after any sequence of Add Wire, Remove Wire, Optimize
\* (feasible or not), Add Sleeve and Undo.
C26_LayerWiresMatchSavedList ==
    \A i \in 1 .. Len(layers) :
        Len(layers[i].coords) > 0 =>
            /\ Len(layers[i].radii) = Len(layers[i].coords)
            /\ Len(layers[i].colors) = Len(layers[i].coords)
            /\ total_count(layers[i].wire_defs) = Len(layers[i].coords)

====
